---- MODULE Spec2Model ----
(***************************************************************************)
(* Model of the Ausbildungsnachweis generator (src/main.py): load_config,  *)
(* generate_all_reports and generate_weekly_report.                        *)
(*                                                                         *)
(* A datetime.date is its proleptic Gregorian ordinal (date.toordinal()),  *)
(* a timedelta a number of days.  A Python str the program computes (a     *)
(* label, a task, a table entry, a formatted number) is a sequence of one- *)
(* character strings, so that str.lower(), '\n'.join() and str() are       *)
(* computed; the fixed texts of the table are TLA+ strings.                *)
(***************************************************************************)
EXTENDS Integers, Sequences, FiniteSets, TLC

VARIABLES
    entries,        \* cfg['special_days'] as read from the YAML file
    start,          \* cfg['start_date']
    end,            \* cfg['end_date']
    default_hours,  \* cfg['default_hours']
    tasks,          \* cfg['tasks']: year 1..3 -> list of task strings
    special_days,   \* cfg['special_days'] after load_config: date -> label
    special,        \* generate_all_reports: special days merged with holidays
    cur,            \* generate_all_reports: Monday of the current week
    count,          \* generate_all_reports: number of weeks started
    year_num,       \* generate_all_reports: apprenticeship year of the week
    apron,          \* generate_all_reports: the year label handed to the report
    i,              \* generate_weekly_report: index of the next day, 0..7
    weekly_total,   \* generate_weekly_report: hours summed so far
    table,          \* generate_weekly_report: header row and the rows built
    reports,        \* the documents built so far (doc.build), in order
    pc              \* position of the program

vars == <<entries, start, end, default_hours, tasks, special_days, special,
          cur, count, year_num, apron, i, weekly_total, table, reports, pc>>

-----------------------------------------------------------------------------
(* Bounds of the model *)

\* the period starts 0..StartSpread days after the Monday of a window
StartSpread == 6
\* the period ends at most MaxPeriodDays days after its start
MaxPeriodDays == 8
\* an inverted period ends at most MaxInversion days before its start
MaxInversion == 2
\* longest task list of the sampling runs
MaxTasks == 4
\* length in days of the period of the multi-year runs
LongDays == 1100

-----------------------------------------------------------------------------
(* Strings *)

Uppercase == <<"A", "B", "C", "D", "E", "F", "G", "H", "I", "J", "K", "L", "M", "N", "O", "P", "Q", "R", "S", "T", "U", "V", "W", "X", "Y", "Z">>
Lowercase == <<"a", "b", "c", "d", "e", "f", "g", "h", "i", "j", "k", "l", "m", "n", "o", "p", "q", "r", "s", "t", "u", "v", "w", "x", "y", "z">>

\* str.lower() on one character
LowerChar(c) ==
    IF \E k \in DOMAIN Uppercase : Uppercase[k] = c
    THEN Lowercase[CHOOSE k \in DOMAIN Uppercase : Uppercase[k] = c]
    ELSE c

\* str.lower()
Lower(s) == [k \in 1..Len(s) |-> LowerChar(s[k])]

\* '\n'.join(lines)
RECURSIVE JoinLines(_)
JoinLines(lines) ==
    IF lines = <<>> THEN <<>>
    ELSE IF Len(lines) = 1 THEN lines[1]
    ELSE lines[1] \o <<"\n">> \o JoinLines(Tail(lines))

Digits == <<"0", "1", "2", "3", "4", "5", "6", "7", "8", "9">>

\* str(n) for n >= 0
RECURSIVE Str(_)
Str(n) ==
    IF n < 10 THEN <<Digits[n + 1]>>
    ELSE Str(n \div 10) \o <<Digits[(n % 10) + 1]>>

-----------------------------------------------------------------------------
(* datetime.date *)

IsLeap(y) == y % 4 = 0 /\ (y % 100 # 0 \/ y % 400 = 0)

DaysInMonth(y, m) ==
    CASE m = 2 -> IF IsLeap(y) THEN 29 ELSE 28
      [] m \in {4, 6, 9, 11} -> 30
      [] OTHER -> 31

DaysBeforeYear(y) ==
    (y - 1) * 365 + (y - 1) \div 4 - (y - 1) \div 100 + (y - 1) \div 400

RECURSIVE DaysBeforeMonth(_, _)
DaysBeforeMonth(y, m) ==
    IF m = 1 THEN 0 ELSE DaysBeforeMonth(y, m - 1) + DaysInMonth(y, m - 1)

\* datetime.date(y, m, d).toordinal()
ToOrdinal(y, m, d) == DaysBeforeYear(y) + DaysBeforeMonth(y, m) + d

\* date.weekday(): 0 is Monday, 6 is Sunday
Weekday(date) == (date + 6) % 7

\* date.year
YearOf(date) ==
    LET n    == date - 1
        n400 == n \div 146097
        r400 == n % 146097
        n100 == r400 \div 36524
        r100 == r400 % 36524
        n4   == r100 \div 1461
        r4   == r100 % 1461
        n1   == r4 \div 365
        y    == n400 * 400 + n100 * 100 + n4 * 4 + n1 + 1
    IN IF n1 = 4 \/ n100 = 4 THEN y - 1 ELSE y

-----------------------------------------------------------------------------
(* holidays.Germany(years=..., language='de'): the nationwide holidays *)

Neujahr             == <<"N", "e", "u", "j", "a", "h", "r">>
Karfreitag          == <<"K", "a", "r", "f", "r", "e", "i", "t", "a", "g">>
Ostermontag         == <<"O", "s", "t", "e", "r", "m", "o", "n", "t", "a", "g">>
ErsterMai           == <<"E", "r", "s", "t", "e", "r", " ", "M", "a", "i">>
ChristiHimmelfahrt  == <<"C", "h", "r", "i", "s", "t", "i", " ", "H", "i", "m", "m", "e", "l", "f", "a", "h", "r", "t">>
Pfingstmontag       == <<"P", "f", "i", "n", "g", "s", "t", "m", "o", "n", "t", "a", "g">>
TagDerEinheit       == <<"T", "a", "g", " ", "d", "e", "r", " ", "D", "e", "u", "t", "s", "c", "h", "e", "n", " ", "E", "i", "n", "h", "e", "i", "t">>
ErsterWeihnachtstag == <<"E", "r", "s", "t", "e", "r", " ", "W", "e", "i", "h", "n", "a", "c", "h", "t", "s", "t", "a", "g">>
ZweiterWeihnachtstag == <<"Z", "w", "e", "i", "t", "e", "r", " ", "W", "e", "i", "h", "n", "a", "c", "h", "t", "s", "t", "a", "g">>

\* dateutil.easter.easter(y): Easter Sunday of the western church
Easter(y) ==
    LET g == y % 19
        c == y \div 100
        h == (c - c \div 4 - (8 * c + 13) \div 25 + 19 * g + 15) % 30
        k == h - (h \div 28) * (1 - (h \div 28) * (29 \div (h + 1)) * ((21 - g) \div 11))
        j == (y + y \div 4 + k + 2 - c + c \div 4) % 7
        p == k - j
        d == 1 + ((p + 27 + (p + 6) \div 40) % 31)
        m == 3 + (p + 26) \div 30
    IN ToOrdinal(y, m, d)

\* the <<date, name>> pairs of one year
HolidaysOfYear(y) ==
    { <<ToOrdinal(y, 1, 1), Neujahr>>,
      <<Easter(y) - 2, Karfreitag>>,
      <<Easter(y) + 1, Ostermontag>>,
      <<ToOrdinal(y, 5, 1), ErsterMai>>,
      <<Easter(y) + 39, ChristiHimmelfahrt>>,
      <<Easter(y) + 50, Pfingstmontag>>,
      <<ToOrdinal(y, 10, 3), TagDerEinheit>>,
      <<ToOrdinal(y, 12, 25), ErsterWeihnachtstag>>,
      <<ToOrdinal(y, 12, 26), ZweiterWeihnachtstag>> }

\* holidays.Germany(years=list(range(start.year, end.year+1)), language='de')
GermanHolidays(s, e) ==
    LET pairs == UNION { HolidaysOfYear(y) : y \in YearOf(s)..YearOf(e) }
    IN [d \in { p[1] : p \in pairs } |-> (CHOOSE p \in pairs : p[1] = d)[2]]

-----------------------------------------------------------------------------
(* load_config: expansion of the special days *)

\* spec_map[d] = label for every d of dates
PutAll(spec_map, dates, label) ==
    [d \in DOMAIN spec_map \cup dates |->
        IF d \in dates THEN label ELSE spec_map[d]]

\* one pass of the loop over cfg['special_days']
PutEntry(spec_map, entry) ==
    IF "date" \in DOMAIN entry
    THEN PutAll(spec_map, {entry.date}, entry.label)
    ELSE IF "start" \in DOMAIN entry
    THEN LET s == entry.start
             e == IF "end" \in DOMAIN entry THEN entry.end ELSE entry.start
         IN PutAll(spec_map, { s + k : k \in 0..(e - s) }, entry.label)
    ELSE spec_map

RECURSIVE ExpandSpecialDays(_, _)
ExpandSpecialDays(es, spec_map) ==
    IF es = <<>> THEN spec_map
    ELSE ExpandSpecialDays(Tail(es), PutEntry(spec_map, Head(es)))

-----------------------------------------------------------------------------
(* generate_all_reports *)

\* a merge in which the holiday name replaces the label of a special day
MergeHolidaysOverwriting(spec_map, de_hols, s, e) ==
    LET within == { d \in DOMAIN de_hols : s <= d /\ d <= e }
    IN [d \in DOMAIN spec_map \cup within |->
          IF d \in within THEN de_hols[d] ELSE spec_map[d]]

\* special = cfg['special_days'].copy(), then every holiday of the period
\* whose date is not yet a key
MergeHolidays(spec_map, de_hols, s, e) ==
    LET added == { d \in DOMAIN de_hols : s <= d /\ d <= e /\ d \notin DOMAIN spec_map }
    IN [d \in DOMAIN spec_map \cup added |->
          IF d \in DOMAIN spec_map THEN spec_map[d] ELSE de_hols[d]]

\* the Monday on or after s, as relativedelta(weekday=MO) gives it
FirstMondayOnOrAfter(s) == s + ((7 - Weekday(s)) % 7)

\* start + relativedelta(weekday=MO(-1)): the Monday on or before s
FirstMonday(s) == s - Weekday(s)

\* a step of two weeks
NextWeekSkipping(c) == c + 14

\* cur + relativedelta(weeks=1)
NextWeek(c) == c + 7

\* the year without the clamp
YearNumUnclamped(delta_days) == delta_days \div 365 + 1

\* delta_days // 365 + 1, clamped to 1..3
YearNum(delta_days) ==
    LET y   == delta_days \div 365 + 1
        lo  == IF y < 3 THEN y ELSE 3
    IN IF lo > 1 THEN lo ELSE 1

\* f'{year_num}. Ausbildungsjahr'
YearLabel(y) == Str(y) \o <<".", " ", "A", "u", "s", "b", "i", "l", "d", "u", "n", "g", "s", "j", "a", "h", "r">>

-----------------------------------------------------------------------------
(* generate_weekly_report *)

Days == <<"Montag", "Dienstag", "Mittwoch", "Donnerstag", "Freitag",
          "Samstag", "Sonntag">>

TableHeader ==
    <<"Tag", "Arbeiten / Unterweisungen", "Einzelstunden", "Gesamtstunden",
      "Abteilung">>

\* a first branch that tests the weekend alone
BlankWeekendOnly(date, wd, global_start, global_end) == wd >= 5

\* a first branch that tests the period alone
BlankOutOfRangeOnly(date, wd, global_start, global_end) ==
    date < global_start \/ date > global_end

\* the first branch of the day loop: outside the period, or a weekend
Blank(date, wd, global_start, global_end) ==
    date < global_start \/ date > global_end \/ wd >= 5

\* the comparison without lower()
ZeroHourLabelCaseSensitive(label) == label \in { <<"u", "r", "l", "a", "u", "b">>, <<"k", "r", "a", "n", "k", "h", "e", "i", "t">> }

\* the policy that leaves school days at 0 hours as well
ZeroHourLabelWithSchule(label) ==
    Lower(label) \in { <<"u", "r", "l", "a", "u", "b">>, <<"k", "r", "a", "n", "k", "h", "e", "i", "t">>, <<"s", "c", "h", "u", "l", "e">> }

\* label.lower() in ('urlaub', 'krankheit')
ZeroHourLabel(label) == Lower(label) \in { <<"u", "r", "l", "a", "u", "b">>, <<"k", "r", "a", "n", "k", "h", "e", "i", "t">> }

\* the hours of a special day
SpecialHours(label, dh) == IF ZeroHourLabel(label) THEN 0 ELSE dh

Min(a, b) == IF a < b THEN a ELSE b

\* the values random.randint(1, min(3, len(tasks_list))) can return
SampleCounts(n) == 1..Min(3, n)

\* sampling with replacement: k positions, not necessarily different
SamplesWithReplacement(tasks_list, k) ==
    { [j \in 1..k |-> tasks_list[p[j]]] : p \in [1..k -> 1..Len(tasks_list)] }

\* the lists random.sample(tasks_list, k) can return: the elements at k
\* distinct positions, in any order
Samples(tasks_list, k) ==
    { [j \in 1..k |-> tasks_list[p[j]]] :
        p \in { q \in [1..k -> 1..Len(tasks_list)] :
                  \A a, b \in 1..k : a # b => q[a] # q[b] } }

-----------------------------------------------------------------------------
(* The program *)

\* one iteration of the day loop that appends a row
AppendRow(entry, hours) ==
    /\ table' = Append(table, <<Days[i + 1], entry, Str(hours), Str(hours), "">>)
    /\ weekly_total' = weekly_total + hours
    /\ i' = i + 1
    /\ pc' = "day"

\* the Einzelstunden column of the day rows of a finished table
HoursOf(t) == [d \in 1..7 |-> t[d + 1][3]]

\* load_config: the special days are expanded into cfg['special_days']
LoadConfig ==
    /\ pc = "load"
    /\ special_days' = ExpandSpecialDays(entries, <<>>)
    /\ pc' = "all_reports"
    /\ UNCHANGED <<entries, start, end, default_hours, tasks, special, cur,
                   count, year_num, apron, i, weekly_total, table, reports>>

\* generate_all_reports up to the loop: the holidays are merged and the
\* first Monday is computed
BeginReports ==
    /\ pc = "all_reports"
    /\ special' = MergeHolidays(special_days, GermanHolidays(start, end), start, end)
    /\ cur' = FirstMonday(start)
    /\ count' = 0
    /\ pc' = "loop"
    /\ UNCHANGED <<entries, start, end, default_hours, tasks, special_days,
                   year_num, apron, i, weekly_total, table, reports>>

\* the loop test holds: the week is counted, its year computed, and
\* generate_weekly_report is entered
WeekBegin ==
    /\ pc = "loop"
    /\ cur <= end
    /\ count' = count + 1
    /\ year_num' = YearNum(cur - start)
    /\ apron' = YearLabel(year_num')
    /\ i' = 0
    /\ weekly_total' = 0
    /\ table' = <<TableHeader>>
    /\ pc' = "day"
    /\ UNCHANGED <<entries, start, end, default_hours, tasks, special_days,
                   special, cur, reports>>

\* one iteration of the day loop of generate_weekly_report; week_start is
\* cur, tasks_list is cfg['tasks'][year_num]
Day ==
    /\ pc = "day"
    /\ i < 7
    /\ LET date       == cur + i
           wd         == Weekday(date)
           tasks_list == tasks[year_num]
       IN IF Blank(date, wd, start, end)
          THEN AppendRow(<<>>, 0)
          ELSE IF date \in DOMAIN special
          THEN AppendRow(special[date], SpecialHours(special[date], default_hours))
          ELSE IF Min(3, Len(tasks_list)) < 1
          THEN \* random.randint(1, 0) raises ValueError
               /\ pc' = "error"
               /\ UNCHANGED <<table, weekly_total, i>>
          ELSE \E k \in SampleCounts(Len(tasks_list)) :
                 \E sample \in Samples(tasks_list, k) :
                   AppendRow(JoinLines(sample), default_hours)
    /\ UNCHANGED <<entries, start, end, default_hours, tasks, special_days,
                   special, cur, count, year_num, apron, reports>>

\* the end of generate_weekly_report (total row, doc.build) and the step of
\* the loop to the next week
WeekEnd ==
    /\ pc = "day"
    /\ i = 7
    /\ table' = Append(table, <<"Gesamtstunden", "", "", Str(weekly_total), "">>)
    /\ reports' = Append(reports,
                    [week_start |-> cur, apprenticeship_year |-> apron,
                     hours |-> HoursOf(table), total |-> Str(weekly_total),
                     number |-> count])
    /\ cur' = NextWeek(cur)
    /\ pc' = "loop"
    /\ UNCHANGED <<entries, start, end, default_hours, tasks, special_days,
                   special, count, year_num, apron, i, weekly_total>>

\* the loop test fails: the count is printed and the program ends
Finish ==
    /\ pc = "loop"
    /\ ~(cur <= end)
    /\ pc' = "done"
    /\ UNCHANGED <<entries, start, end, default_hours, tasks, special_days,
                   special, cur, count, year_num, apron, i, weekly_total,
                   table, reports>>

Next == LoadConfig \/ BeginReports \/ WeekBegin \/ Day \/ WeekEnd \/ Finish

-----------------------------------------------------------------------------
(* Configurations *)

Urlaub         == <<"U", "r", "l", "a", "u", "b">>
UrlaubUpper    == <<"U", "R", "L", "A", "U", "B">>
Krankheit      == <<"K", "r", "a", "n", "k", "h", "e", "i", "t">>
KrankheitMixed == <<"k", "r", "a", "n", "k", "H", "E", "I", "T">>
Schule         == <<"S", "c", "h", "u", "l", "e">>
Urlaubstag     == <<"U", "r", "l", "a", "u", "b", "s", "t", "a", "g">>

\* task number n of year y
Task(y, n) == <<"J", "a", "h", "r", " ">> \o Str(y) \o <<" ", "A", "u", "f", "g", "a", "b", "e", " ">> \o Str(n)

\* a task list of n different tasks
TaskList(y, n) == [k \in 1..n |-> Task(y, k)]

\* the Mondays of the weeks the periods start in: the weeks of New Year 2025
\* and of Christmas 2026
WindowMondays == { ToOrdinal(2024, 12, 30), ToOrdinal(2026, 12, 21) }

\* special_days sections of a configuration, m the Monday of the window
SpecialDayConfigs(m) ==
    { <<>>,
      << [date |-> m + 4, label |-> Schule] >>,
      << [start |-> m + 2, end |-> m + 5, label |-> Urlaub],
         [date |-> m + 3, label |-> KrankheitMixed] >>,
      << [start |-> m + 3, label |-> UrlaubUpper],
         [date |-> m + 4, label |-> Schule],
         [date |-> m + 5, label |-> Schule],
         [start |-> m + 8, end |-> m + 7, label |-> Urlaub] >>,
      << [date |-> m + 1, label |-> Urlaubstag],
         [start |-> m + 7, end |-> m + 9, label |-> Krankheit],
         [date |-> m + 8, label |-> Schule],
         [date |-> m + 11, label |-> Urlaub] >> }

\* the state at the start of the program, for one configuration
Configured(s, e, dh, ts, es) ==
    /\ entries = es
    /\ start = s
    /\ end = e
    /\ default_hours = dh
    /\ tasks = ts
    /\ special_days = <<>>
    /\ special = <<>>
    /\ cur = 0
    /\ count = 0
    /\ year_num = 0
    /\ apron = <<>>
    /\ i = 0
    /\ weekly_total = 0
    /\ table = <<>>
    /\ reports = <<>>
    /\ pc = "load"

\* short periods in both windows, inverted periods included
Init ==
    \E m \in WindowMondays :
      \E s \in m..(m + StartSpread) :
        \E e \in (s - MaxInversion)..(s + MaxPeriodDays) :
          \E dh \in {6, 8} :
            \E es \in SpecialDayConfigs(m) :
              Configured(s, e, dh, [y \in 1..3 |-> TaskList(y, 1)], es)

Spec == Init /\ [][Next]_vars

\* the program always takes its next step
LiveSpec == Spec /\ WF_vars(Next)


\* the task lists of the sampling runs: 0..MaxTasks different tasks, and
\* lists in which a task is entered twice
SampleTaskLists ==
    { TaskList(1, n) : n \in 0..MaxTasks }
      \cup { <<Task(1, 1), Task(1, 1)>>, <<Task(1, 1), Task(1, 2), Task(1, 1)>> }

\* Thursday 2025-01-02 alone, or with the Friday after it, and every task
\* list of year 1
InitSample ==
    \E e \in {ToOrdinal(2025, 1, 2), ToOrdinal(2025, 1, 3)} :
      \E t1 \in SampleTaskLists :
        Configured(ToOrdinal(2025, 1, 2), e, 8,
                   [y \in 1..3 |-> IF y = 1 THEN t1 ELSE TaskList(y, 1)], <<>>)

SpecSample == InitSample /\ [][Next]_vars

\* periods of LongDays days starting on each day of the week of New Year 2025
InitYears ==
    \E s \in ToOrdinal(2024, 12, 30)..(ToOrdinal(2024, 12, 30) + StartSpread) :
      \E es \in { <<>>, << [date |-> s + 400, label |-> Schule] >> } :
        Configured(s, s + LongDays, 8, [y \in 1..3 |-> TaskList(y, 1)], es)

SpecYears == InitYears /\ [][Next]_vars


-----------------------------------------------------------------------------
(* Vocabulary of the properties *)

\* the days of the current week whose rows are built: day j (0 is Monday)
\* has the date cur + j and the row table[j + 2]
Built == IF pc = "day" THEN 0..(i - 1) ELSE {}

DateOf(j) == cur + j

EntryOf(j) == table[j + 2][2]

\* the hours of day j as its row shows them, in both hour columns
HoursOfDay(j) == table[j + 2][3]

BothHourColumns(j) == table[j + 2][4] = table[j + 2][3]

Zero == <<"0">>

Eight == <<"8">>

\* a number below 100 in decimal digits
Shown(n) ==
    LET digit(d) == <<"0", "1", "2", "3", "4", "5", "6", "7", "8", "9">>[d + 1]
    IN IF n < 10 THEN <<digit(n)>> ELSE <<digit(n \div 10), digit(n % 10)>>

\* default_hours as the table shows it
DefaultHours == Shown(default_hours)

InRange(d) == start <= d /\ d <= end

\* the holiday calendar of the run
IsHoliday(d) == d \in DOMAIN GermanHolidays(start, end)

HolidayName(d) == GermanHolidays(start, end)[d]

\* a and b are the same string up to the case of their letters
SameIgnoringCase(a, b) ==
    /\ Len(a) = Len(b)
    /\ \A k \in 1..Len(a) :
         \/ a[k] = b[k]
         \/ \E n \in DOMAIN Uppercase : {a[k], b[k]} = {Uppercase[n], Lowercase[n]}

\* the hours the zero-hour-label policy gives a special day
PolicyHours(label) ==
    IF SameIgnoringCase(label, Urlaub) \/ SameIgnoringCase(label, Krankheit)
    THEN Zero ELSE DefaultHours

\* the lines of a string
RECURSIVE SplitLines(_)
SplitLines(s) ==
    IF \E k \in 1..Len(s) : s[k] = "\n"
    THEN LET k == CHOOSE c \in 1..Len(s) :
                    s[c] = "\n" /\ \A b \in 1..(c - 1) : s[b] # "\n"
         IN <<SubSeq(s, 1, k - 1)>> \o SplitLines(SubSeq(s, k + 1, Len(s)))
    ELSE <<s>>

\* how often x occurs in the sequence q
Occurrences(q, x) == Cardinality({ k \in DOMAIN q : q[k] = x })

\* the Mondays later than start - 7 and not later than end
Anchors == { m \in (start - 6)..end : Weekday(m) = 0 }

\* clamp(floor(offset / 365) + 1, 1, 3), case by case
ExpectedYear(offset) ==
    IF offset < 365 THEN 1 ELSE IF offset < 730 THEN 2 ELSE 3

-----------------------------------------------------------------------------
(* Properties *)

\* C1: every day of a generated week that lies before the period start or
\* after the period end has empty content and 0 hours, whatever its weekday
\* and whether or not it is a special day or a holiday.
C1_OutOfRangeDaysAreEmpty ==
    \A j \in Built :
      (DateOf(j) < start \/ DateOf(j) > end)
        => EntryOf(j) = <<>> /\ HoursOfDay(j) = Zero

\* an out-of-range Monday-to-Friday special day and an out-of-range
\* Monday-to-Friday holiday have been given their rows
C1_Witness ==
    \E j, k \in Built :
      /\ ~InRange(DateOf(j)) /\ Weekday(DateOf(j)) < 5
      /\ DateOf(j) \in DOMAIN special_days
      /\ ~InRange(DateOf(k)) /\ Weekday(DateOf(k)) < 5
      /\ IsHoliday(DateOf(k))
      /\ HoursOfDay(j) = Zero /\ HoursOfDay(k) = Zero

\* C2: every Saturday and Sunday inside the period has empty content and 0
\* hours, also when it is declared a special day or is a public holiday.
C2_WeekendDaysAreEmpty ==
    \A j \in Built :
      (InRange(DateOf(j)) /\ Weekday(DateOf(j)) >= 5)
        => EntryOf(j) = <<>> /\ HoursOfDay(j) = Zero

\* an in-range Saturday that is both a special day and a holiday has been
\* given its row
C2_Witness ==
    \E j \in Built :
      /\ InRange(DateOf(j)) /\ Weekday(DateOf(j)) = 5
      /\ DateOf(j) \in DOMAIN special_days
      /\ IsHoliday(DateOf(j))
      /\ EntryOf(j) = <<>>

\* C3: an in-range Monday-to-Friday special day shows exactly its label; its
\* hours are 0 when the label is "Urlaub" or "Krankheit" up to case, and
\* default_hours for every other label.
C3_SpecialDayPolicy ==
    \A j \in Built :
      (InRange(DateOf(j)) /\ Weekday(DateOf(j)) < 5
         /\ DateOf(j) \in DOMAIN special_days)
        => /\ EntryOf(j) = special_days[DateOf(j)]
           /\ HoursOfDay(j) = PolicyHours(special_days[DateOf(j)])
           /\ BothHourColumns(j)

\* a "URLAUB" day with 0 hours and a "Schule" day with default_hours stand
\* in the same week
C3_Witness ==
    \E j, k \in Built :
      /\ InRange(DateOf(j)) /\ Weekday(DateOf(j)) < 5
      /\ DateOf(j) \in DOMAIN special_days
      /\ special_days[DateOf(j)] = UrlaubUpper /\ HoursOfDay(j) = Zero
      /\ InRange(DateOf(k)) /\ Weekday(DateOf(k)) < 5
      /\ DateOf(k) \in DOMAIN special_days
      /\ special_days[DateOf(k)] = Schule /\ HoursOfDay(k) = DefaultHours

\* C4: an in-range Monday-to-Friday holiday that is also a special day shows
\* the special-day label with the special-day hours; one that is no special
\* day shows the holiday name with default_hours.
C4_HolidayNeverOverwrites ==
    \A j \in Built :
      (InRange(DateOf(j)) /\ Weekday(DateOf(j)) < 5 /\ IsHoliday(DateOf(j)))
        => IF DateOf(j) \in DOMAIN special_days
           THEN /\ EntryOf(j) = special_days[DateOf(j)]
                /\ HoursOfDay(j) = PolicyHours(special_days[DateOf(j)])
           ELSE /\ EntryOf(j) = HolidayName(DateOf(j))
                /\ HoursOfDay(j) = DefaultHours

\* the first week held a holiday declared as "Urlaub", reported with 0
\* hours, and the second week shows Neujahr, no special day, with
\* default_hours
C4_Witness ==
    /\ Len(reports) = 1
    /\ \E k \in 0..4 :
         LET d == reports[1].week_start + k
         IN /\ InRange(d) /\ IsHoliday(d) /\ d \in DOMAIN special_days
            /\ special_days[d] = Urlaub
            /\ reports[1].hours[k + 1] = Zero
    /\ \E j \in Built :
         /\ InRange(DateOf(j)) /\ Weekday(DateOf(j)) < 5
         /\ IsHoliday(DateOf(j)) /\ DateOf(j) \notin DOMAIN special_days
         /\ EntryOf(j) = Neujahr /\ HoursOfDay(j) = DefaultHours

\* C5: for start <= end the week anchors are the Monday on or before start
\* and every seventh day after it up to the last one <= end; each is a
\* Monday; the period 2025-01-01..2025-01-01 has the one anchor 2024-12-30.
C5_WeekAnchors ==
    (pc = "done" /\ start <= end)
      => /\ Len(reports) = Cardinality(Anchors)
         /\ Len(reports) >= 1
         /\ reports[1].week_start <= start
         /\ start < reports[1].week_start + 7
         /\ \A k \in 1..Len(reports) :
              /\ reports[k].week_start = reports[1].week_start + 7 * (k - 1)
              /\ Weekday(reports[k].week_start) = 0
              /\ reports[k].week_start <= end
         /\ reports[Len(reports)].week_start + 7 > end
         /\ (start = ToOrdinal(2025, 1, 1) /\ end = ToOrdinal(2025, 1, 1))
              => (Len(reports) = 1
                    /\ reports[1].week_start = ToOrdinal(2024, 12, 30))

\* a period that starts on Wednesday 2025-01-01 has run to its end with more
\* than one week, the first anchored at 2024-12-30
C5_Witness ==
    /\ pc = "done"
    /\ start = ToOrdinal(2025, 1, 1) /\ start <= end
    /\ Len(reports) >= 2
    /\ reports[1].week_start = ToOrdinal(2024, 12, 30)

\* C6: the apprenticeship year of a week, used for its label and its task
\* list, is clamp(floor((anchor - start) / 365) + 1, 1, 3): 1 at offset 0
\* and at negative offsets, 2 at offset 400, 3 at offset 1000, never more
\* than 3, and never smaller than the week before.
C6_YearOfWeek ==
    /\ [](pc = "day" =>
            /\ year_num = ExpectedYear(cur - start)
            /\ (cur - start <= 0 => year_num = 1)
            /\ (cur - start = 400 => year_num = 2)
            /\ (cur - start = 1000 => year_num = 3)
            /\ year_num <= 3
            /\ apron[1] = <<"1", "2", "3">>[ExpectedYear(cur - start)]
            /\ \A j \in Built :
                 (InRange(DateOf(j)) /\ Weekday(DateOf(j)) < 5
                    /\ DateOf(j) \notin DOMAIN special_days
                    /\ ~IsHoliday(DateOf(j)))
                   => EntryOf(j) = Task(ExpectedYear(cur - start), 1))
    /\ [][year_num' >= year_num]_vars

\* the week at offset 1000 is being built in year 3, after a first week
\* anchored before the period start in year 1 and a week of year 2
C6_Witness ==
    /\ pc = "day" /\ i = 7
    /\ cur - start = 1000 /\ year_num = 3
    /\ reports[1].week_start < start
    /\ reports[1].apprenticeship_year[1] = "1"
    /\ \E k \in 1..Len(reports) : reports[k].apprenticeship_year[1] = "2"

\* the configuration of C7
C7_Configuration ==
    /\ start = ToOrdinal(2025, 1, 1) /\ end = ToOrdinal(2025, 1, 7)
    /\ default_hours = 8
    /\ entries = << [date |-> ToOrdinal(2025, 1, 3), label |-> Schule] >>

\* C7 as stated: the period 2025-01-01..2025-01-07 with default_hours 8 and
\* the one special day 2025-01-03 "Schule" gives a single week, anchored at
\* 2024-12-30, with the hours 0, 0, 8, 8, 8, 0, 0 and the total 24.
C7_SingleWeek ==
    (pc = "done" /\ C7_Configuration)
      => /\ Len(reports) = 1
         /\ reports[1].week_start = ToOrdinal(2024, 12, 30)
         /\ reports[1].hours = <<Zero, Zero, Eight, Eight, Eight, Zero, Zero>>
         /\ reports[1].total = <<"2", "4">>

\* C7 as amended: that configuration gives two weeks, 2025-01-07 being the
\* Tuesday of the week after: the first, anchored at 2024-12-30, with the
\* hours 0, 0, 8, 8, 8, 0, 0 and the total 24, the second, anchored at
\* 2025-01-06, with the hours 8, 8, 0, 0, 0, 0, 0 and the total 16.
C7_EndToEnd ==
    (pc = "done" /\ C7_Configuration)
      => /\ Len(reports) = 2
         /\ reports[1].week_start = ToOrdinal(2024, 12, 30)
         /\ reports[1].hours = <<Zero, Zero, Eight, Eight, Eight, Zero, Zero>>
         /\ reports[1].total = <<"2", "4">>
         /\ reports[2].week_start = ToOrdinal(2025, 1, 6)
         /\ reports[2].hours = <<Eight, Eight, Zero, Zero, Zero, Zero, Zero>>
         /\ reports[2].total = <<"1", "6">>

\* that configuration has run to its end
C7_Witness ==
    /\ pc = "done" /\ C7_Configuration
    /\ Len(reports) = 2 /\ reports[1].total = <<"2", "4">>

\* C8: a run whose period starts after its end fails with an error and
\* builds no weekly report: it never enters a week, never builds a document
\* and never ends normally.
C8_InvalidPeriodFailsFast ==
    start > end => (reports = <<>> /\ pc \notin {"day", "done"})

C10_Sequencer ==
    /\ [](\A k \in 1..Len(reports) :
            /\ reports[k].number = k
            /\ k > 1 => reports[k].week_start = reports[k - 1].week_start + 7)
    /\ []((reports # <<>> /\ start <= end)
            => reports[1].week_start = CHOOSE m \in Anchors :
                                         \A o \in Anchors : m <= o)
    /\ []((pc = "done" /\ start <= end)
            => count = Cardinality(Anchors) /\ Len(reports) = count)
    /\ [][count' = count \/ (count' = count + 1 /\ pc = "loop")]_vars
    /\ (start <= end => <>(pc = "done"))

\* a period of three weeks has run to its end
C10_Witness ==
    /\ pc = "done" /\ start <= end
    /\ count = 3 /\ Len(reports) = 3
    /\ reports[3].number = 3

====
